---- MODULE Spec2Model ----
(***************************************************************************)
(* Model of the drift-monitoring and auto-retraining subsystem:            *)
(*   src/ml/auto_retraining_scheduler.py  (RetrainingScheduler)            *)
(*   src/ml/hooks/drift_detector.py       (DriftDetector,                  *)
(*                                         trigger_retraining)             *)
(*   src/ml/training/retrain_pipeline.py  (RetrainPipeline)                *)
(*                                                                         *)
(* Threads: the main thread (start/stop and direct check_for_drift calls)  *)
(* and the background workers created by start().  Files are the shared    *)
(* state: artifact, metrics snapshot, training-history ledger,             *)
(* notification log and drift-check log.  Every open()/write that the code *)
(* performs may fail (an OSError), chosen by the environment.              *)
(***************************************************************************)
EXTENDS Integers, Sequences, FiniteSets, TLC

\* ------------------------------------------------------------------ bounds
MaxWorkers == 2          \* threads that start() may create in one behaviour
MaxCycles == 2           \* check_for_drift calls in one behaviour
SlicesPerInterval == 1   \* int(seconds_to_next_check / 10), scaled down
MaxFaults == 2           \* exceptions the environment raises in one behaviour
MaxRows == 12            \* rows of a dataset given to load_data
MaxValue == 16           \* largest baseline mean and new value of check_value_drift
MaxThreshold == 5        \* largest drift threshold of check_value_drift
MaxMetric == 13          \* largest MSE and MAE, in tenths, of check_prediction_drift

Main == 0
Workers == 1..MaxWorkers
Threads == {Main} \cup Workers

\* The two sets of file locations: the defaults hard-wired in the
\* constructors, and locations given to a scheduler of its own.
Paths == {"default", "custom"}

\* ---------------------------------------------------------- Python values
PyBool(b) == [t |-> "bool", v |-> IF b THEN "True" ELSE "False"]
PyStr(s) == [t |-> "str", v |-> s]
PyNone == [t |-> "none", v |-> "None"]
PyTrue == PyBool(TRUE)
PyFalse == PyBool(FALSE)
\* the result of comparing a numpy.float64 (a mean, an MSE) with a number
NpBool(b) == [t |-> "numpy.bool_", v |-> IF b THEN "True" ELSE "False"]

\* bool(x) as an `if` condition evaluates it
Truthy(x) ==
  CASE x.t \in {"bool", "numpy.bool_"} -> x.v = "True"
    [] x.t = "str" -> x.v # ""
    [] OTHER -> FALSE

\* x == y between values of the model: a bool never equals a str
PyEq(x, y) == x.t = y.t /\ x.v = y.v

\* dict.get(key, default) and dict[key] = value
DictGet(d, key, default) == IF key \in DOMAIN d THEN d[key] ELSE default
DictSet(d, key, value) == (key :> value) @@ d

EmptyDict == [x \in {} |-> PyNone]

\* `a or b`: a when a is truthy, else b
PyOr(a, b) == IF Truthy(a) THEN a ELSE b

\* a dict stored under a key of another dict is written with dotted keys
DottedKey ==
  [features |->
     [drift_detected |-> "features.drift_detected"],
   distribution_drift |->
     ("drift_detected" :> "distribution_drift.drift_detected") @@
     ("error" :> "distribution_drift.error") @@
     ("features.drift_detected" :> "distribution_drift.features.drift_detected"),
   prediction_drift |->
     [drift_detected |-> "prediction_drift.drift_detected",
      error |-> "prediction_drift.error"]]
Nested(name, d) ==
  [x \in {DottedKey[name][key] : key \in DOMAIN d} |->
     d[CHOOSE key \in DOMAIN d : DottedKey[name][key] = x]]
\* the dict with the entries of two
Merge(d1, d2) == d1 @@ d2

\* make_json_serializable, the recursion into dicts being the map over the
\* dotted keys: the isinstance chain tests (int, float, str, NoneType) before
\* bool, and bool is a subclass of int, so a native bool is returned
\* unchanged; anything else (a numpy.bool_) becomes str(obj).
MakeJsonSerializableValue(x) ==
  IF x.t \in {"bool", "int", "float", "str", "none"} THEN x ELSE PyStr(x.v)

MakeJsonSerializable(d) == [k \in DOMAIN d |-> MakeJsonSerializableValue(d[k])]

\* ----------------------------------------------------------------- files
Absent == [st |-> "absent", run |-> 0]
Complete(r) == [st |-> "complete", run |-> r]
Partial(r) == [st |-> "partial", run |-> r]

\* the header line of training_history.csv; the other lines are run ids
Header == -1

VARIABLES
  sched_paths,    \* the data/model/metrics paths the scheduler was built with
  running,        \* RetrainingScheduler.running
  stop_event,     \* RetrainingScheduler.stop_event
  scheduler_thread, \* RetrainingScheduler.scheduler_thread (0 = None)
  last_check_time, \* RetrainingScheduler.last_check_time
  next_check_time, \* RetrainingScheduler.next_check_time
  nThreads,       \* worker threads created so far
  pc,             \* position of each thread
  result,         \* check_for_drift: the local `result` dict
  rs,             \* check_for_drift: retraining_success
  run,            \* id of the RetrainPipeline.run() the thread is inside
  save_ok,        \* what save_model returned to run()
  run_result,     \* how the last run() ended: "none", "returned", "raised"
  k,              \* worker: iterations left of the 10-second wait loop
  cyc,            \* id of the check cycle the thread is inside
  seen,           \* monitor_and_alert: what joblib.load read, until the next step
  cancelled,      \* workers that were waiting when stop() was called
  cycles,         \* check cycles started
  runs,           \* runs started
  faults,         \* exceptions raised by the environment so far
  artifact,       \* model artifact at each path
  metrics,        \* metrics snapshot at each path
  ledger,         \* training_history.csv in the default directory: the
                  \* header line and the rows (run ids); empty when absent
  notifications,  \* logs/notifications.log
  drift_log,      \* logs/drift_checks.json
  fn,             \* a function called on its own: its name ("none": no call)
  arg,            \* ... its arguments
  ret,            \* ... what it returned
  returned        \* ... whether it has returned

vars == <<sched_paths, running, stop_event, scheduler_thread,
          last_check_time, next_check_time, nThreads, pc,
          result, rs, run, save_ok, run_result, k, cyc, seen, cancelled,
          cycles, runs, faults, artifact, metrics, ledger, notifications, drift_log,
          fn, arg, ret, returned>>

schedVars == <<running, stop_event, scheduler_thread, nThreads, cancelled>>
fileVars == <<artifact, metrics, ledger>>
logVars == <<notifications, drift_log>>
localVars == <<result, rs, run, save_ok, run_result, k, cyc, seen>>
fnVars == <<fn, arg, ret, returned>>
timeVars == <<last_check_time, next_check_time>>

\* ------------------------------------------------------ program constants
CheckIntervalHours == 24
SecondsToNextCheck == CheckIntervalHours * 3600
\* remainder = seconds_to_next_check % 10: zero for a whole number of hours
Remainder == SecondsToNextCheck % 10

\* the worker's sleeps: time.sleep(10) in the wait loop, time.sleep(60) after
\* an iteration that raised
SliceSeconds == 10
BackoffSeconds == 60

\* Times: datetime.now() read in check cycle c, and a time plus a number of
\* hours; None is the time of no cycle.
Now(c) == [cycle |-> c, hours |-> 0]
NoTime == Now(0)
TimePlusHours(tm, h) == [cycle |-> tm.cycle, hours |-> tm.hours + h]
\* datetime.isoformat(): a str, here with the time it was made from
Isoformat(tm) == [t |-> "str", v |-> "isoformat", time |-> tm]

\* check_for_drift: next_check_time = last_check_time + timedelta(hours=...)
NextCheckTime_Unchanged(last) == next_check_time

NextCheckTime(last) == TimePlusHours(last, CheckIntervalHours)

\* ------------------------------------------------- conditions of the code
\* start(): `if self.running: return`
StartAlreadyRunning_Unguarded == FALSE

StartAlreadyRunning == running

\* stop(): `if not self.running: return`
StopNotRunning == ~running

\* _scheduler_loop(): `while not self.stop_event.is_set()`
LoopCondition == ~stop_event

\* the wait loop: `if self.stop_event.is_set(): break`
WaitBreaks == stop_event

\* `result.get('drift_detected', False)` used as a condition, in
\* check_for_drift and again at the top of trigger_retraining
DriftFlag_DefaultTrue(res) == Truthy(DictGet(res, "drift_detected", PyTrue))

DriftFlag(res) == Truthy(DictGet(res, "drift_detected", PyFalse))

\* trigger_retraining returns the bool True after run() returned and the
\* bool False after run() raised (or without drift)
TriggerReturn(ok) == PyBool(ok)

\* check_for_drift: `if retraining_success == "True"`
RetrainSucceeded(x) == PyEq(x, PyStr("True"))

\* save_model: returns True after the three writes, False from its
\* `except Exception` handler
SaveModelReturn(ok) == PyBool(ok)

\* run(): the value of save_model is dropped and metrics are returned
RunAfterSave(saved) == "returned"

\* monitor_and_alert results
ErrorResult == [status |-> PyStr("error"), message |-> PyStr("message")]

\* check_distribution_drift: the reference set cannot be read (the error
\* dict is returned), or the feature statistics are compared; the overall
\* flag is the bool False or True, the per-feature flag is `z_score > 2.0`
DistOutcomes == {"no_drift", "drift", "no_reference", "raises"}
CheckDistributionDrift(o) ==
  IF o = "no_reference"
  THEN [drift_detected |-> PyFalse, error |-> PyStr("message")]
  ELSE Merge([drift_detected |-> PyBool(o = "drift")],
             Nested("features", [drift_detected |-> NpBool(o = "drift")]))

\* check_prediction_drift: no target column (the error dict), no reference
\* metrics (drift_detected False), or the comparison of the relative changes
\* with 0.2, a numpy.bool_
PredOutcomes == {"no_drift", "drift", "no_target", "no_reference", "raises"}
CheckPredictionDrift(o) ==
  CASE o = "no_target" -> [drift_detected |-> PyFalse, error |-> PyStr("message")]
    [] o = "no_reference" -> [drift_detected |-> PyFalse]
    [] OTHER -> [drift_detected |-> NpBool(o = "drift")]

Callbacks == {"none", "returns", "raises"}

\* what one call of monitor_and_alert meets
MonitorInputs ==
  [model_exists : BOOLEAN, data_exists : BOOLEAN,
   model_loads : BOOLEAN, data_loads : BOOLEAN,
   dist : DistOutcomes, pred : PredOutcomes, callback : Callbacks]

Returns(value) == [raised |-> FALSE, value |-> value]
Raises == [raised |-> TRUE, value |-> EmptyDict]

\* the body of monitor_and_alert's try
MonitorBody(in) ==
  IF ~in.model_exists THEN Returns(ErrorResult)
  ELSE IF ~in.data_exists THEN Returns(ErrorResult)
  ELSE IF ~in.model_loads \/ ~in.data_loads THEN Raises
  ELSE IF in.dist = "raises" \/ in.pred = "raises" THEN Raises
  ELSE LET distribution_drift == CheckDistributionDrift(in.dist)
           prediction_drift == CheckPredictionDrift(in.pred)
           drift_detected == PyOr(distribution_drift.drift_detected,
                                  prediction_drift.drift_detected)
           res == Merge([status |-> PyStr(IF Truthy(drift_detected) THEN "alert" ELSE "ok"),
                         drift_detected |-> drift_detected],
                        Merge(Nested("distribution_drift", distribution_drift),
                              Nested("prediction_drift", prediction_drift)))
       IN  IF Truthy(drift_detected) /\ in.callback = "raises" THEN Raises
           ELSE Returns(res)

\* monitor_and_alert: `except Exception` returns the error result
MonitorAndAlertCall(in) ==
  IF MonitorBody(in).raised THEN Returns(ErrorResult) ELSE MonitorBody(in)

\* what the environment makes of the monitor_and_alert call of a check
\* cycle: of the results with drift, the one found by the distribution check
MonitorEnv ==
  {"import_error", "no_data", "read_error", "check_error", "drift", "no_drift"}

\* check_for_drift calls it on the scheduler's paths, without a callback
MonitorArgs(a, env) ==
  [model_exists |-> a.st # "absent",
   data_exists |-> env # "no_data",
   model_loads |-> a.st = "complete",
   data_loads |-> env # "read_error",
   dist |-> CASE env = "check_error" -> "raises"
              [] env = "drift" -> "drift"
              [] OTHER -> "no_drift",
   pred |-> "no_drift",
   callback |-> "none"]

\* the results of all calls, computed once
MonitorMemo == [in \in MonitorInputs |-> MonitorAndAlertCall(in)] @@ EmptyDict
MonitorAndAlert(a, env) == MonitorMemo[MonitorArgs(a, env)].value

\* joblib.load is reached only past the two existence tests
LoadsArtifact(a, env) == a.st # "absent" /\ env # "no_data"

WaitPcs == {"wait", "sleep", "sleep_remainder"}
RunPcs == {"run_compute", "save_artifact", "save_artifact_write",
           "save_metrics", "save_ledger_header", "save_ledger"}
CheckPcs == {"monitor", "notify_drift", "notify_outcome", "log_result",
             "err_log"} \cup RunPcs

\* where a worker is inside a time.sleep call, and for how many seconds the
\* call lasts; nothing interrupts it
SleepPcs == {"sleep", "sleep_remainder", "backoff"}
SleepSeconds(p) ==
  CASE p = "sleep" -> SliceSeconds
    [] p = "sleep_remainder" -> Remainder
    [] p = "backoff" -> BackoffSeconds

\* where a thread can stay for seconds or longer
LongPcs == {"sleep", "sleep_remainder", "backoff"} \cup CheckPcs

DriftSubject == "Model Drift Detected"
CompleteSubject == "Model Retraining Complete"
FailedSubject == "Model Retraining Failed"

\* ------------------------------------------------------------------ Init
InitFiles(present) == [p \in Paths |-> IF p \in present THEN Complete(0) ELSE Absent]

SchedulerInit ==
  /\ sched_paths \in Paths
  /\ running = FALSE
  /\ stop_event = FALSE
  /\ scheduler_thread = 0
  /\ last_check_time = NoTime
  /\ next_check_time = NoTime
  /\ nThreads = 0
  /\ pc = [t \in Threads |-> IF t = Main THEN "idle" ELSE "unborn"]
  /\ result = [t \in Threads |-> EmptyDict]
  /\ rs = [t \in Threads |-> PyNone]
  /\ run = [t \in Threads |-> 0]
  /\ save_ok = [t \in Threads |-> PyNone]
  /\ run_result = [t \in Threads |-> "none"]
  /\ k = [t \in Threads |-> 0]
  /\ cyc = [t \in Threads |-> 0]
  /\ seen = [t \in Threads |-> Absent]
  /\ cancelled = {}
  /\ cycles = 0
  /\ runs = 0
  /\ faults = 0
  /\ \E present \in SUBSET Paths :
       /\ (sched_paths = "default" => "custom" \notin present)
       /\ (sched_paths = "custom" => present = {"custom"})
       /\ artifact = InitFiles(present)
       /\ metrics = InitFiles(present)
       /\ ledger = IF "default" \in present THEN <<Header, 0>> ELSE <<>>
  /\ notifications = <<>>
  /\ drift_log = <<>>

NoCall ==
  /\ fn = "none"
  /\ arg = EmptyDict
  /\ ret = EmptyDict
  /\ returned = FALSE

Init == SchedulerInit /\ NoCall

\* the environment raises (an OSError of an open or a write, a failing
\* import, a failing fit) or does not
Fault(raised) ==
  IF raised THEN faults < MaxFaults /\ faults' = faults + 1 ELSE faults' = faults

\* ------------------------------------------------------------- scheduler
\* RetrainingScheduler.start
Start ==
  /\ pc[Main] = "idle"
  /\ IF StartAlreadyRunning
     THEN UNCHANGED vars
     ELSE /\ nThreads < MaxWorkers
          /\ running' = TRUE
          /\ stop_event' = FALSE
          /\ nThreads' = nThreads + 1
          /\ scheduler_thread' = nThreads + 1
          /\ pc' = [pc EXCEPT ![nThreads + 1] = "loop_head"]
          /\ UNCHANGED <<sched_paths, fnVars, timeVars, faults, cancelled, cycles, runs>>
          /\ UNCHANGED <<localVars, fileVars, logVars>>

\* RetrainingScheduler.stop up to the join of the scheduler's thread
Stop ==
  /\ pc[Main] = "idle"
  /\ IF StopNotRunning
     THEN UNCHANGED vars
     ELSE /\ running' = FALSE
          /\ stop_event' = TRUE
          /\ cancelled' = cancelled \cup {w \in Workers : pc[w] \in WaitPcs}
          /\ pc' = [pc EXCEPT ![Main] = "joining"]
          /\ UNCHANGED <<sched_paths, fnVars, timeVars, faults, scheduler_thread, nThreads, cycles, runs>>
          /\ UNCHANGED <<localVars, fileVars, logVars>>

\* join(timeout=5) returns: the thread has ended, or the 5 seconds have
\* passed, which takes a thread that is in a sleep, or in a step of a check
\* or a retrain (none of which is bounded in time); the loop's own tests
\* take no such time
JoinReturns(w) == pc[w] = "done" \/ pc[w] \in LongPcs

StopJoin ==
  /\ pc[Main] = "joining"
  /\ JoinReturns(scheduler_thread)
  /\ pc' = [pc EXCEPT ![Main] = "idle"]
  /\ UNCHANGED <<sched_paths, fnVars, timeVars, faults, schedVars, cycles, runs>>
  /\ UNCHANGED <<localVars, fileVars, logVars>>

\* SIGINT or SIGTERM reaches the main thread while it idles, the handlers
\* having been installed by start(): _signal_handler calls stop(), here up
\* to its join
Signal ==
  /\ pc[Main] = "idle"
  /\ nThreads > 0
  /\ IF StopNotRunning
     THEN /\ pc' = [pc EXCEPT ![Main] = "signal_joined"]
          /\ UNCHANGED <<running, stop_event, cancelled>>
     ELSE /\ running' = FALSE
          /\ stop_event' = TRUE
          /\ cancelled' = cancelled \cup {w \in Workers : pc[w] \in WaitPcs}
          /\ pc' = [pc EXCEPT ![Main] = "signal_joining"]
  /\ UNCHANGED <<sched_paths, fnVars, timeVars, faults, scheduler_thread, nThreads, cycles, runs>>
  /\ UNCHANGED <<localVars, fileVars, logVars>>

\* _signal_handler: stop() has returned (its join has, or there was none),
\* and sys.exit(0) ends the process, and with it the daemon threads
\* wherever they are
SignalExit ==
  /\ \/ pc[Main] = "signal_joined"
     \/ pc[Main] = "signal_joining" /\ JoinReturns(scheduler_thread)
  /\ pc' = [pc EXCEPT ![Main] = "exited"]
  /\ UNCHANGED <<sched_paths, fnVars, timeVars, faults, schedVars, cycles, runs>>
  /\ UNCHANGED <<localVars, fileVars, logVars>>

\* the process is there: a step of a thread is a step of a live process
Alive == pc[Main] # "exited"

\* entering check_for_drift
EnterCheck(t) ==
  /\ cycles < MaxCycles
  /\ cycles' = cycles + 1
  /\ cyc' = [cyc EXCEPT ![t] = cycles + 1]
  /\ pc' = [pc EXCEPT ![t] = "monitor"]

\* _scheduler_loop: the `while` test, then check_for_drift
LoopHead(w) ==
  /\ pc[w] = "loop_head"
  /\ Alive
  /\ IF LoopCondition
     THEN /\ EnterCheck(w)
          /\ UNCHANGED cancelled
     ELSE /\ pc' = [pc EXCEPT ![w] = "done"]
          /\ cancelled' = cancelled \ {w}
          /\ UNCHANGED <<cycles, cyc>>
  /\ UNCHANGED <<sched_paths, fnVars, timeVars, faults, running, stop_event, scheduler_thread, nThreads, runs>>
  /\ UNCHANGED <<result, rs, run, save_ok, run_result, k, seen>>
  /\ UNCHANGED <<fileVars, logVars>>

\* _scheduler_loop: one iteration of the `for` wait loop, up to time.sleep(10);
\* after the loop the remainder is slept only if it is positive
Wait(w) ==
  /\ pc[w] = "wait"
  /\ Alive
  /\ IF k[w] = 0 \/ WaitBreaks
     THEN pc' = [pc EXCEPT ![w] = IF Remainder > 0 /\ ~stop_event
                                  THEN "sleep_remainder" ELSE "loop_head"]
     ELSE pc' = [pc EXCEPT ![w] = "sleep"]
  /\ UNCHANGED <<sched_paths, fnVars, timeVars, faults, schedVars, cycles, runs>>
  /\ UNCHANGED <<localVars, fileVars, logVars>>

\* time.sleep(10), or time.sleep(remainder), returns
Sleep(w) ==
  /\ pc[w] \in {"sleep", "sleep_remainder"}
  /\ Alive
  /\ IF pc[w] = "sleep"
     THEN /\ pc' = [pc EXCEPT ![w] = "wait"]
          /\ k' = [k EXCEPT ![w] = k[w] - 1]
     ELSE /\ pc' = [pc EXCEPT ![w] = "loop_head"]
          /\ UNCHANGED k
  /\ UNCHANGED <<sched_paths, fnVars, timeVars, faults, schedVars, cycles, runs>>
  /\ UNCHANGED <<result, rs, run, save_ok, run_result, cyc, seen>>
  /\ UNCHANGED <<fileVars, logVars>>

\* `except Exception`: time.sleep(60) returns
Backoff(w) ==
  /\ pc[w] = "backoff"
  /\ Alive
  /\ pc' = [pc EXCEPT ![w] = "loop_head"]
  /\ UNCHANGED <<sched_paths, fnVars, timeVars, faults, schedVars, cycles, runs>>
  /\ UNCHANGED <<localVars, fileVars, logVars>>

\* a direct call of check_for_drift (the run-once path)
CheckForDriftCall ==
  /\ pc[Main] = "idle"
  /\ EnterCheck(Main)
  /\ UNCHANGED <<sched_paths, fnVars, timeVars, faults, schedVars, runs>>
  /\ UNCHANGED <<result, rs, run, save_ok, run_result, k, seen>>
  /\ UNCHANGED <<fileVars, logVars>>

\* ------------------------------------------------------- check_for_drift
\* the locals of a finished call are dropped
ResetLocals(t) ==
  /\ result' = [result EXCEPT ![t] = EmptyDict]
  /\ rs' = [rs EXCEPT ![t] = PyNone]
  /\ run' = [run EXCEPT ![t] = 0]
  /\ save_ok' = [save_ok EXCEPT ![t] = PyNone]
  /\ run_result' = [run_result EXCEPT ![t] = "none"]
  /\ cyc' = [cyc EXCEPT ![t] = 0]
  /\ seen' = [seen EXCEPT ![t] = Absent]

\* check_for_drift returns: the worker goes on to compute its wait, the
\* main thread is back in its caller
Return(t) ==
  /\ ResetLocals(t)
  /\ IF t = Main
     THEN /\ pc' = [pc EXCEPT ![t] = "idle"]
          /\ UNCHANGED k
     ELSE /\ pc' = [pc EXCEPT ![t] = "wait"]
          /\ k' = [k EXCEPT ![t] = SlicesPerInterval]

\* where an exception that leaves check_for_drift is handled: in the worker
\* by the loop's `except Exception` (the 60 s sleep), else by the caller
RaiseTarget_WorkerDies(t) == IF t = Main THEN "idle" ELSE "done"

RaiseTarget(t) == IF t = Main THEN "idle" ELSE "backoff"

\* check_for_drift raises
Raise(t) ==
  /\ ResetLocals(t)
  /\ pc' = [pc EXCEPT ![t] = RaiseTarget(t)]
  /\ UNCHANGED k

\* the import and the DriftDetector constructor, monitor_and_alert, and the
\* branch on its result
Monitor(t) ==
  /\ pc[t] = "monitor"
  /\ Alive
  /\ \E env \in MonitorEnv :
       /\ Fault(env = "import_error")
       /\ IF env = "import_error"
          THEN /\ pc' = [pc EXCEPT ![t] = "err_log"]
               /\ UNCHANGED <<result, seen>>
          ELSE LET a == artifact[sched_paths]
                   r == MonitorAndAlert(a, env)
               IN  /\ seen' = [seen EXCEPT ![t] = IF LoadsArtifact(a, env) THEN a ELSE Absent]
                   /\ IF DriftFlag(r)
                      THEN /\ result' = [result EXCEPT ![t] = r]
                           /\ pc' = [pc EXCEPT ![t] = "notify_drift"]
                      ELSE /\ result' = [result EXCEPT ![t] =
                                           DictSet(r, "retraining_triggered", PyStr("False"))]
                           /\ pc' = [pc EXCEPT ![t] = "log_result"]
  /\ UNCHANGED <<sched_paths, fnVars, timeVars, schedVars, cycles, runs>>
  /\ UNCHANGED <<rs, run, save_ok, run_result, k, cyc>>
  /\ UNCHANGED <<fileVars, logVars>>

\* _send_notification: one appended line, or the exception of its open()
Notification(subject, t) == [subject |-> subject, cycle |-> cyc[t]]

\* the "Model Drift Detected" notification, then trigger_retraining up to
\* the call of RetrainPipeline().run()
NotifyDrift(t) ==
  /\ pc[t] = "notify_drift"
  /\ Alive
  /\ \E ok \in BOOLEAN :
       /\ Fault(~ok)
       /\ IF ok
          THEN /\ notifications' = Append(notifications, Notification(DriftSubject, t))
               /\ IF DriftFlag(result[t])
                  THEN /\ runs' = runs + 1
                       /\ run' = [run EXCEPT ![t] = runs + 1]
                       /\ pc' = [pc EXCEPT ![t] = "run_compute"]
                       /\ UNCHANGED rs
                  ELSE /\ rs' = [rs EXCEPT ![t] = TriggerReturn(FALSE)]
                       /\ pc' = [pc EXCEPT ![t] = "notify_outcome"]
                       /\ UNCHANGED <<runs, run>>
          ELSE /\ pc' = [pc EXCEPT ![t] = "err_log"]
               /\ UNCHANGED <<notifications, runs, run, rs>>
  /\ seen' = [seen EXCEPT ![t] = Absent]
  /\ UNCHANGED <<sched_paths, fnVars, timeVars, schedVars, cycles>>
  /\ UNCHANGED <<result, save_ok, run_result, k, cyc>>
  /\ UNCHANGED <<fileVars, drift_log>>

\* run() re-raises what a step raised; trigger_retraining catches it
RunRaises(t) ==
  /\ run_result' = [run_result EXCEPT ![t] = "raised"]
  /\ rs' = [rs EXCEPT ![t] = TriggerReturn(FALSE)]
  /\ pc' = [pc EXCEPT ![t] = "notify_outcome"]

\* run() up to save_model: load_data, train_model and evaluate_model read the
\* dataset and compute; the first of them to raise ends the run
RunCompute(t) ==
  /\ pc[t] = "run_compute"
  /\ Alive
  /\ \E raises \in {"nothing", "load_data", "train_model", "evaluate_model"} :
       /\ Fault(raises # "nothing")
       /\ IF raises = "nothing"
          THEN /\ pc' = [pc EXCEPT ![t] = "save_artifact"]
               /\ UNCHANGED <<run_result, rs>>
          ELSE RunRaises(t)
  /\ UNCHANGED <<sched_paths, fnVars, timeVars, schedVars, cycles, runs>>
  /\ UNCHANGED <<result, run, save_ok, k, cyc, seen>>
  /\ UNCHANGED <<fileVars, logVars>>

\* save_model is left, normally or through its handler; run() returns the
\* metrics and trigger_retraining returns True
SaveModelEnds(t, ok) ==
  /\ save_ok' = [save_ok EXCEPT ![t] = SaveModelReturn(ok)]
  /\ run_result' = [run_result EXCEPT ![t] = RunAfterSave(SaveModelReturn(ok))]
  /\ rs' = [rs EXCEPT ![t] = TriggerReturn(RunAfterSave(SaveModelReturn(ok)) = "returned")]
  /\ pc' = [pc EXCEPT ![t] = "notify_outcome"]

\* joblib.dump opens the artifact for writing, which truncates it
SaveArtifactOpen(t) ==
  /\ pc[t] = "save_artifact"
  /\ Alive
  /\ \E ok \in BOOLEAN :
       /\ Fault(~ok)
       /\ IF ok
          THEN /\ artifact' = [artifact EXCEPT !["default"] = Partial(run[t])]
               /\ pc' = [pc EXCEPT ![t] = "save_artifact_write"]
               /\ UNCHANGED <<save_ok, run_result, rs>>
          ELSE /\ SaveModelEnds(t, FALSE)
               /\ UNCHANGED artifact
  /\ UNCHANGED <<sched_paths, fnVars, timeVars, schedVars, cycles, runs>>
  /\ UNCHANGED <<result, run, k, cyc, seen>>
  /\ UNCHANGED <<metrics, ledger, logVars>>

\* joblib.dump writes the pickle and closes the file, or fails part-way
SaveArtifactWrite(t) ==
  /\ pc[t] = "save_artifact_write"
  /\ Alive
  /\ \E ok \in BOOLEAN :
       /\ Fault(~ok)
       /\ IF ok
          THEN /\ artifact' = [artifact EXCEPT !["default"] = Complete(run[t])]
               /\ pc' = [pc EXCEPT ![t] = "save_metrics"]
               /\ UNCHANGED <<save_ok, run_result, rs>>
          ELSE /\ SaveModelEnds(t, FALSE)
               /\ UNCHANGED artifact
  /\ UNCHANGED <<sched_paths, fnVars, timeVars, schedVars, cycles, runs>>
  /\ UNCHANGED <<result, run, k, cyc, seen>>
  /\ UNCHANGED <<metrics, ledger, logVars>>

\* os.path.exists(history_path)
HistoryExists == ledger # <<>>

\* open(metrics_path, 'w') and json.dump, then the test whether the ledger
\* exists
SaveMetrics(t) ==
  /\ pc[t] = "save_metrics"
  /\ Alive
  /\ \E outcome \in {"ok", "open_fails", "dump_fails"} :
       /\ Fault(outcome # "ok")
       /\ IF outcome = "ok"
          THEN /\ metrics' = [metrics EXCEPT !["default"] = Complete(run[t])]
               /\ pc' = [pc EXCEPT ![t] = IF HistoryExists THEN "save_ledger"
                                          ELSE "save_ledger_header"]
               /\ UNCHANGED <<save_ok, run_result, rs>>
          ELSE /\ metrics' = IF outcome = "dump_fails"
                             THEN [metrics EXCEPT !["default"] = Partial(run[t])]
                             ELSE metrics
               /\ SaveModelEnds(t, FALSE)
  /\ UNCHANGED <<sched_paths, fnVars, timeVars, schedVars, cycles, runs>>
  /\ UNCHANGED <<result, run, k, cyc, seen>>
  /\ UNCHANGED <<artifact, ledger, logVars>>

\* the ledger did not exist at the test: open(history_path, 'w'), which
\* empties the file, and the header line
SaveLedgerHeader(t) ==
  /\ pc[t] = "save_ledger_header"
  /\ Alive
  /\ \E ok \in BOOLEAN :
       /\ Fault(~ok)
       /\ IF ok
          THEN /\ ledger' = <<Header>>
               /\ pc' = [pc EXCEPT ![t] = "save_ledger"]
               /\ UNCHANGED <<save_ok, run_result, rs>>
          ELSE /\ SaveModelEnds(t, FALSE)
               /\ UNCHANGED ledger
  /\ UNCHANGED <<sched_paths, fnVars, timeVars, schedVars, cycles, runs>>
  /\ UNCHANGED <<result, run, k, cyc, seen>>
  /\ UNCHANGED <<artifact, metrics, logVars>>

\* open(history_path, 'a') and the appended row
SaveLedger(t) ==
  /\ pc[t] = "save_ledger"
  /\ Alive
  /\ \E ok \in BOOLEAN :
       /\ Fault(~ok)
       /\ ledger' = IF ok THEN Append(ledger, run[t]) ELSE ledger
       /\ SaveModelEnds(t, ok)
  /\ UNCHANGED <<sched_paths, fnVars, timeVars, schedVars, cycles, runs>>
  /\ UNCHANGED <<result, run, k, cyc, seen>>
  /\ UNCHANGED <<artifact, metrics, logVars>>

\* the notification sent for what trigger_retraining returned
OutcomeNotifications_SilentFailure(x, t) ==
  IF RetrainSucceeded(x) THEN <<Notification(CompleteSubject, t)>> ELSE <<>>

OutcomeNotifications(x, t) ==
  <<Notification(IF RetrainSucceeded(x) THEN CompleteSubject ELSE FailedSubject, t)>>

\* the outcome notification and the two result keys; the inner handler when
\* the notification raises
NotifyOutcome(t) ==
  /\ pc[t] = "notify_outcome"
  /\ Alive
  /\ \E ok \in BOOLEAN :
       /\ Fault(~ok)
       /\ IF ok
          THEN /\ notifications' = notifications \o OutcomeNotifications(rs[t], t)
               /\ result' = [result EXCEPT ![t] =
                    DictSet(DictSet(result[t], "retraining_triggered", PyStr("True")),
                            "retraining_success", rs[t])]
          ELSE /\ UNCHANGED notifications
               /\ result' = [result EXCEPT ![t] =
                    DictSet(DictSet(DictSet(result[t],
                            "retraining_triggered", PyStr("True")),
                            "retraining_success", PyStr("False")),
                            "retraining_error", PyStr("message"))]
  /\ pc' = [pc EXCEPT ![t] = "log_result"]
  /\ UNCHANGED <<sched_paths, fnVars, timeVars, schedVars, cycles, runs>>
  /\ UNCHANGED <<rs, run, save_ok, run_result, k, cyc, seen>>
  /\ UNCHANGED <<fileVars, drift_log>>

LogLine(t, d) == [cycle |-> cyc[t], line |-> MakeJsonSerializable(d)]

\* the time stamps, the drift-log line (a failure is logged and dropped),
\* and the return
LogResult(t) ==
  /\ pc[t] = "log_result"
  /\ Alive
  /\ last_check_time' = Now(cyc[t])
  /\ next_check_time' = NextCheckTime(last_check_time')
  /\ \E ok \in BOOLEAN :
       /\ Fault(~ok)
       /\ drift_log' =
            IF ok
            THEN Append(drift_log, LogLine(t,
                   DictSet(DictSet(result[t],
                           "last_check_time", Isoformat(last_check_time')),
                           "next_check_time", Isoformat(next_check_time'))))
            ELSE drift_log
  /\ Return(t)
  /\ UNCHANGED <<sched_paths, fnVars, schedVars, cycles, runs>>
  /\ UNCHANGED <<fileVars, notifications>>

\* the outer handler: the error line is written outside any try
ErrLog(t) ==
  /\ pc[t] = "err_log"
  /\ Alive
  /\ \E ok \in BOOLEAN :
       /\ Fault(~ok)
       /\ IF ok
          THEN /\ drift_log' = Append(drift_log, LogLine(t, ErrorResult))
               /\ Return(t)
          ELSE /\ UNCHANGED drift_log
               /\ Raise(t)
  /\ UNCHANGED <<sched_paths, fnVars, timeVars, schedVars, cycles, runs>>
  /\ UNCHANGED <<fileVars, notifications>>

\* ------------------------------------------------------------------ Next
CheckStep(t) ==
  \/ Monitor(t)
  \/ NotifyDrift(t)
  \/ RunCompute(t)
  \/ SaveArtifactOpen(t)
  \/ SaveArtifactWrite(t)
  \/ SaveMetrics(t)
  \/ SaveLedgerHeader(t)
  \/ SaveLedger(t)
  \/ NotifyOutcome(t)
  \/ LogResult(t)
  \/ ErrLog(t)

WorkerStep(w) ==
  \/ LoopHead(w)
  \/ Wait(w)
  \/ Sleep(w)
  \/ Backoff(w)
  \/ CheckStep(w)

Next ==
  \/ Start
  \/ Stop
  \/ StopJoin
  \/ Signal
  \/ SignalExit
  \/ CheckForDriftCall
  \/ CheckStep(Main)
  \/ \E w \in Workers : WorkerStep(w)

Spec == Init /\ [][Next]_vars

\* The scheduler mode of the scripts: the main thread calls start and stop
\* and makes no check of its own.
SchedulerNext ==
  \/ Start
  \/ Stop
  \/ StopJoin
  \/ \E w \in Workers : WorkerStep(w)

\* Worker threads are scheduled and their sleeps end; nothing obliges the
\* main thread to call start or stop.
LiveSpec ==
  Init /\ [][SchedulerNext]_vars /\ \A w \in Workers : WF_vars(WorkerStep(w))

TypeOK ==
  /\ running \in BOOLEAN
  /\ stop_event \in BOOLEAN
  /\ nThreads \in 0..MaxWorkers
  /\ cycles \in 0..MaxCycles
  /\ Len(notifications) <= 2 * MaxCycles

\* ------------------------------------------------- RetrainPipeline.load_data
\* a slice bound as Python reads it: a negative one counts from the end,
\* and -0 is 0
SliceIndex(i, n) ==
  IF i < 0 THEN (IF i + n < 0 THEN 0 ELSE i + n) ELSE (IF i > n THEN n ELSE i)
\* seq[:stop] and seq[start:]
SliceTo(seq, stop) == SubSeq(seq, 1, SliceIndex(stop, Len(seq)))
SliceFrom(seq, start) == SubSeq(seq, SliceIndex(start, Len(seq)) + 1, Len(seq))

\* int(len(data) * 0.2); for the lengths of the model the float product
\* truncates to the whole part of len / 5
TestSize(n) == (n * 2) \div 10

\* the rows of training and test set (features and target are split alike)
LoadData(rows) ==
  LET test_size == TestSize(Len(rows))
  IN  [train |-> SliceTo(rows, -test_size), test |-> SliceFrom(rows, -test_size)]

\* datasets: the rows numbered in file order
LoadDataInputs == {[rows |-> [i \in 1..n |-> i]] : n \in 0..MaxRows}

\* ----------------------------------------- DriftDetector.check_value_drift
Abs(x) == IF x < 0 THEN -x ELSE x

\* `drift > self.threshold`
ExceedsThreshold_Inclusive(drift, threshold) == drift >= threshold

ExceedsThreshold(drift, threshold) == drift > threshold

\* the pair (drift_detected, drift); numbers are whole-valued floats
CheckValueDrift(in) ==
  IF ~in.has_baseline
  THEN [drift_detected |-> PyFalse, drift |-> 0]
  ELSE LET drift == Abs(in.new_value - in.baseline_mean)
       IN  [drift_detected |-> PyBool(ExceedsThreshold(drift, in.threshold)),
            drift |-> drift]

\* a detector with a baseline mean, or with none (baseline_mean is None)
ValueDriftInputs ==
  [has_baseline : {TRUE}, baseline_mean : 0..MaxValue,
   threshold : 0..MaxThreshold, new_value : 0..MaxValue]
  \cup [has_baseline : {FALSE}, baseline_mean : {0},
        threshold : 0..MaxThreshold, new_value : 0..MaxValue]

\* ------------------------------------ DriftDetector.check_prediction_drift
\* `(new - ref) / ref > drift_threshold`, drift_threshold being 0.2; the
\* metrics are whole numbers of tenths.  The new metric is a numpy float, so
\* a zero reference divides to inf (greater than 0.2) or, 0 / 0, to nan
\* (greater than nothing) without raising.
RelativeChangeExceeds_Inclusive(new, ref) ==
  IF ref = 0 THEN new > 0 ELSE (new - ref) * 10 >= 2 * ref

RelativeChangeExceeds(new, ref) ==
  IF ref = 0 THEN new > 0 ELSE (new - ref) * 10 > 2 * ref

\* the data (with or without the target column, and the MSE and MAE of the
\* model on it) and the metrics file (absent or unreadable or without 'mse',
\* or with 'mse' and with or without 'mae')
PredictionDriftInputs ==
  [has_target : {TRUE}, mse : 0..MaxMetric, mae : 0..MaxMetric,
   has_reference : {TRUE}, ref_mse : 0..MaxMetric,
   has_ref_mae : {TRUE}, ref_mae : 0..MaxMetric]
  \cup [has_target : {TRUE}, mse : 0..MaxMetric, mae : 0..MaxMetric,
         has_reference : {TRUE}, ref_mse : 0..MaxMetric,
         has_ref_mae : {FALSE}, ref_mae : {0}]
  \cup [has_target : BOOLEAN, mse : 0..MaxMetric, mae : 0..MaxMetric,
         has_reference : {FALSE}, ref_mse : {0},
         has_ref_mae : {FALSE}, ref_mae : {0}]

\* which return statement the call reaches; `metrics.get('mae',
\* metrics.get('mse'))` makes the reference MSE the reference of the MAE
\* when the file has no 'mae'
PredictionOutcome(in) ==
  IF ~in.has_target THEN "no_target"
  ELSE IF ~in.has_reference THEN "no_reference"
  ELSE LET ref_mse == in.ref_mse
           ref_mae == IF in.has_ref_mae THEN in.ref_mae ELSE in.ref_mse
       IN  IF \/ RelativeChangeExceeds(in.mse, ref_mse)
              \/ RelativeChangeExceeds(in.mae, ref_mae)
           THEN "drift" ELSE "no_drift"

\* the returned dict: the flag (and the error) with the metrics
PredictionDriftCall(in) ==
  LET o == PredictionOutcome(in)
      current == [current_mse |-> in.mse, current_mae |-> in.mae]
  IN  CASE o = "no_target" -> CheckPredictionDrift(o)
        [] o = "no_reference" -> Merge(CheckPredictionDrift(o), current)
        [] OTHER ->
             Merge(CheckPredictionDrift(o),
                   Merge([reference_mse |-> in.ref_mse,
                          reference_mae |-> IF in.has_ref_mae THEN in.ref_mae
                                            ELSE in.ref_mse],
                         current))

\* ------------------------------------------------ command-line entry points
\* The entry points that make one check and exit: the run script's 'drift'
\* mode and its 'scheduler --run-once' mode, the scheduler's own main with
\* --run-once, and the drift detector's __main__ block.
EntryPoints ==
  {"run_script_drift", "run_script_scheduler_once", "scheduler_run_once",
   "detector_main"}

\* how a check_for_drift call ends for its caller: it returns the result of
\* monitor_and_alert (status 'ok', 'alert' or 'error') or the error result
\* of its handler, or the handler's own log write raises
CheckForDriftOutcomes ==
  {Returns([status |-> PyStr(st)]) : st \in {"ok", "alert", "error"}} \cup {Raises}

\* an entry point and what its check does: the 'drift' mode and the
\* detector's main call monitor_and_alert without a callback, the run-once
\* modes call check_for_drift
MainInputs ==
  [entry : {"run_script_drift", "detector_main"},
   trigger_retraining : BOOLEAN,
   check : {MonitorAndAlertCall(in) : in \in {x \in MonitorInputs : x.callback = "none"}}]
  \cup [entry : {"run_script_scheduler_once", "scheduler_run_once"},
         trigger_retraining : {FALSE},
         check : CheckForDriftOutcomes]

\* run_auto_retraining.py main: the 'drift' mode drops what
\* run_drift_detection returns and returns 0; run_scheduler returns 0 after
\* the check and 1 from its `except Exception`
RunScriptMain(in) ==
  IF in.entry = "run_script_drift" THEN 0
  ELSE IF in.check.raised THEN 1 ELSE 0

\* auto_retraining_scheduler.py main with --run-once: 0 after the check has
\* returned and been printed, 1 from `except Exception`
SchedulerMain(in) == IF in.check.raised THEN 1 ELSE 0

\* drift_detector.py __main__: result['drift_detected'] raises KeyError for
\* a result without the key, which `except Exception` turns into exit 1;
\* else sys.exit(0 if result['status'] != 'error' else 1)
DetectorMain(in) ==
  LET res == in.check.value
  IN  IF "drift_detected" \notin DOMAIN res THEN 1
      ELSE IF res["status"] # PyStr("error") THEN 0 ELSE 1

\* the exit status of the process
ExitStatus(in) ==
  CASE in.entry \in {"run_script_drift", "run_script_scheduler_once"} -> RunScriptMain(in)
    [] in.entry = "scheduler_run_once" -> SchedulerMain(in)
    [] in.entry = "detector_main" -> DetectorMain(in)

\* ---------------------------------------------------- trigger_retraining
\* drift results handed to trigger_retraining: the flag as monitor_and_alert
\* makes it (a bool or a numpy.bool_), as a caller may write it (a str), or
\* missing (an error result); and whether RetrainPipeline().run() raises
DriftFlagValues ==
  {PyTrue, PyFalse, NpBool(TRUE), NpBool(FALSE), PyStr("True"), PyStr("False")}
TriggerInputs ==
  [drift_result : {[drift_detected |-> x] : x \in DriftFlagValues} \cup {ErrorResult},
   run_raises : BOOLEAN]

\* trigger_retraining(drift_result): what it returns and whether it started
\* a run of the pipeline
TriggerRetraining(in) ==
  IF ~DriftFlag(in.drift_result)
  THEN [returns |-> TriggerReturn(FALSE), run_started |-> FALSE]
  ELSE [returns |-> TriggerReturn(~in.run_raises), run_started |-> TRUE]

\* ------------------------------------ run_auto_retraining.py 'drift' mode
\* whether the import of the detector raises, the --trigger-retraining
\* option, what the monitor_and_alert call meets
\* (it is called without a callback), and whether a triggered run raises
RunDriftInputs ==
  [import_raises : BOOLEAN,
   trigger_retraining : BOOLEAN,
   monitor : {x \in MonitorInputs : x.callback = "none"},
   run_raises : BOOLEAN]

\* `result.get('drift_detected') == 'True'`
DriftFlagIsTrueString(res) == PyEq(DictGet(res, "drift_detected", PyNone), PyStr("True"))

\* the word logged for `retraining_result == 'True'`
LoggedOutcome(x) == IF PyEq(x, PyStr("True")) THEN "successful" ELSE "failed"

\* run_drift_detection(args): the result it returns, whether it called
\* trigger_retraining, what that returned and what was logged about it
RunDriftDetection(in) ==
  LET res == MonitorAndAlertCall(in.monitor).value
      called == in.trigger_retraining /\ DriftFlagIsTrueString(res)
      retraining_result ==
        TriggerRetraining([drift_result |-> res, run_raises |-> in.run_raises]).returns
  IN  IF in.import_raises
      THEN [result |-> ErrorResult, triggered |-> FALSE,
            retraining_result |-> PyNone, logged |-> "nothing"]
      ELSE [result |-> res,
            triggered |-> called,
            retraining_result |-> IF called THEN retraining_result ELSE PyNone,
            logged |-> IF called THEN LoggedOutcome(retraining_result) ELSE "nothing"]

\* -------------------------------------------------------- retraining_demo
\* `def run(self)`: the parameters of RetrainPipeline.run besides self
RunParameters == {}

\* a call run(**kwargs): binding a keyword that is no parameter raises
\* TypeError before the body is entered; else the body runs on
\* self.data_path and returns the metrics or re-raises what a step raised
PipelineRunCall(kwargs, body_raises) ==
  IF ~(kwargs \subseteq RunParameters) \/ body_raises
  THEN Raises
  ELSE Returns([trained_on |-> PyStr("self.data_path")])

\* what the demo meets: whether the initial run() raises, whether the
\* artifact is there afterwards (save_model may have failed silently),
\* whether reading or checking the drifted dataset raises, the flag the
\* checks compute, and whether the body of the second run() and the
\* evaluation raise
DemoInputs ==
  [initial_raises : BOOLEAN, model_exists : BOOLEAN, check_raises : BOOLEAN,
   drift_detected : BOOLEAN, retrain_raises : BOOLEAN, evaluate_raises : BOOLEAN]

\* run_retraining(data_path): pipeline.run(csv_path=data_path)
RunRetraining(in) == PipelineRunCall({"csv_path"}, in.retrain_raises)

\* retraining_demo.py main: every exception is caught and gives status 1;
\* check_for_drift returns None without the artifact, and
\* None['drift_detected'] raises
DemoMain(in) ==
  IF PipelineRunCall({}, in.initial_raises).raised THEN 1
  ELSE IF ~in.model_exists \/ in.check_raises THEN 1
  ELSE IF ~in.drift_detected THEN 0
  ELSE IF RunRetraining(in).raised \/ in.evaluate_raises THEN 1
  ELSE 0

\* main gets as far as `if drift_result['drift_detected']` and takes it
DemoReachesRetraining(in) ==
  /\ ~PipelineRunCall({}, in.initial_raises).raised
  /\ in.model_exists /\ ~in.check_raises
  /\ in.drift_detected

\* --------------------------------------------- functions called on their own
\* One call of one function of the components, on arguments drawn from its
\* bounded input set; the scheduler is not started.
Functions ==
  {"monitor_and_alert", "load_data", "check_value_drift", "check_prediction_drift",
   "main", "trigger_retraining", "retraining_demo", "run_drift_detection"}

FnInputs(f) ==
  CASE f = "monitor_and_alert" -> MonitorInputs
    [] f = "load_data" -> LoadDataInputs
    [] f = "check_value_drift" -> ValueDriftInputs
    [] f = "check_prediction_drift" -> PredictionDriftInputs
    [] f = "main" -> MainInputs
    [] f = "trigger_retraining" -> TriggerInputs
    [] f = "retraining_demo" -> DemoInputs
    [] f = "run_drift_detection" -> RunDriftInputs

FnInit ==
  /\ SchedulerInit
  /\ sched_paths = "default"
  /\ artifact["default"] = Absent
  /\ fn \in Functions
  /\ arg \in FnInputs(fn)
  /\ ret = EmptyDict
  /\ returned = FALSE

Call(f, value) ==
  /\ fn = f
  /\ ~returned
  /\ ret' = value
  /\ returned' = TRUE
  /\ UNCHANGED <<fn, arg>>
  /\ UNCHANGED <<sched_paths, timeVars, schedVars, pc, cycles, runs, faults>>
  /\ UNCHANGED <<localVars, fileVars, logVars>>

\* DriftDetector.monitor_and_alert(data_path, alert_callback)
CallMonitorAndAlert == Call("monitor_and_alert", MonitorAndAlertCall(arg))

\* RetrainPipeline.load_data()
CallLoadData == Call("load_data", Returns(LoadData(arg.rows)))

\* DriftDetector.check_value_drift(new_value)
CallCheckValueDrift == Call("check_value_drift", Returns(CheckValueDrift(arg)))

\* DriftDetector.check_prediction_drift(model, new_data)
CallCheckPredictionDrift ==
  Call("check_prediction_drift", Returns(PredictionDriftCall(arg)))

\* one of the entry points runs to its sys.exit
CallMain == Call("main", Returns([exit_status |-> ExitStatus(arg)]))

\* trigger_retraining(drift_result)
CallTriggerRetraining == Call("trigger_retraining", Returns(TriggerRetraining(arg)))

\* retraining_demo.py main: its exit status, whether it reached
\* run_retraining, and what that call does
CallRetrainingDemo ==
  Call("retraining_demo",
       Returns([exit_status |-> DemoMain(arg),
                retrain_reached |-> DemoReachesRetraining(arg),
                retrain |-> RunRetraining(arg)]))

\* run_drift_detection(args)
CallRunDriftDetection ==
  Call("run_drift_detection", Returns(RunDriftDetection(arg)))

FnNext ==
  \/ CallMonitorAndAlert
  \/ CallLoadData
  \/ CallCheckValueDrift
  \/ CallCheckPredictionDrift
  \/ CallMain
  \/ CallTriggerRetraining
  \/ CallRetrainingDemo
  \/ CallRunDriftDetection

FnSpec == FnInit /\ [][FnNext]_vars

\* ================================================================ claims
\* helpers of the claims' formulas
DetectedDrift(t) ==
  /\ "drift_detected" \in DOMAIN result[t]
  /\ result[t]["drift_detected"] \in {PyTrue, NpBool(TRUE)}
OutcomeSubjects == {CompleteSubject, FailedSubject}
NotifIndices(subjects, c) ==
  {i \in DOMAIN notifications :
     notifications[i].cycle = c /\ notifications[i].subject \in subjects}
RunSucceeded(t) == run_result[t] = "returned" /\ save_ok[t] = PyTrue

\* C1: a thread is inside RetrainPipeline.run (from its start until the
\* check cycle returns) only in a cycle whose monitor_and_alert result has
\* drift_detected true; a cycle with an 'ok' or an error result starts none.
C1_RetrainOnlyOnDrift ==
  \A t \in Threads :
    (run[t] # 0 \/ pc[t] \in RunPcs) =>
      /\ DetectedDrift(t)
      /\ result[t]["status"] = PyStr("alert")

\* C1 witness: a worker's cycle detected drift and its run has started
C1_Witness ==
  \E w \in Workers : pc[w] = "run_compute" /\ run[w] # 0 /\ DetectedDrift(w)

\* C2 (as claimed): once the outcome notification of a drift cycle is
\* recorded, it is 'Model Retraining Complete' exactly when the run the
\* cycle triggered completed successfully, and 'Model Retraining Failed'
\* only when it failed.
C2_OutcomeReflectsRun ==
  \A t \in Threads :
    (pc[t] = "log_result" /\ run[t] # 0) =>
      \A i \in NotifIndices(OutcomeSubjects, cyc[t]) :
        (notifications[i].subject = CompleteSubject) <=> RunSucceeded(t)

C4_ChecksRecur ==
  /\ [][\A w \in Workers :
         (pc'[w] = "done" /\ pc[w] # "done") => (pc[w] = "loop_head" /\ stop_event)]_vars
  /\ \A w \in Workers :
       [](pc[w] \notin {"unborn", "done"} =>
            <>(pc[w] = "monitor" \/ stop_event \/ cycles = MaxCycles))

\* C4 witness: an iteration of a running, unstopped worker has raised and
\* the worker is in its 60 s backoff with a check still to come
C4_Witness ==
  \E w \in Workers :
    pc[w] = "backoff" /\ running /\ ~stop_event /\ cycles < MaxCycles

\* C5 (as claimed): a worker that was in its inter-check wait when stop()
\* was called starts no further drift check: it stays in the wait until it
\* sees the flag, then is at the loop test or has left the loop.
C5_StoppedWaiterStartsNoCheck ==
  \A w \in cancelled : pc[w] \in WaitPcs \cup {"loop_head", "done"}

\* C6 (as claimed): at most one worker thread is inside the check loop.
LiveWorkers == {w \in Workers : pc[w] \notin {"unborn", "done"}}
C6_AtMostOneWorker == Cardinality(LiveWorkers) <= 1

\* C7: running and the stop flag change only together and only as
\* Stopped -> Running (flag cleared, one new worker at the loop test, made
\* the scheduler's thread) or Running -> Stopped (flag set, no new worker);
\* a worker is launched only by a Stopped -> Running step, so start() while
\* Running launches none; and outside these steps running and the flag are
\* untouched, the flag being the negation of running once started.
C7_TwoStateMachine ==
  /\ [][(running' # running \/ stop_event' # stop_event \/ nThreads' # nThreads) =>
          \/ /\ ~running /\ running' /\ ~stop_event'
             /\ nThreads' = nThreads + 1
             /\ scheduler_thread' = nThreads'
             /\ pc[nThreads'] = "unborn" /\ pc'[nThreads'] = "loop_head"
          \/ /\ running /\ ~running' /\ stop_event'
             /\ nThreads' = nThreads
             /\ scheduler_thread' = scheduler_thread]_vars
  /\ [](nThreads > 0 => (running <=> ~stop_event))
  /\ [](nThreads = 0 => (~running /\ ~stop_event))

\* C7 witness: start(), stop() and start() again have been called
C7_Witness == running /\ ~stop_event /\ nThreads = 2 /\ scheduler_thread = 2

\* C8 (as claimed): when run() has ended, the artifact, the metrics snapshot
\* and the ledger are all this run's or none of them was touched by it.
AllCommitted(r) ==
  /\ artifact["default"] = Complete(r)
  /\ metrics["default"] = Complete(r)
  /\ \E i \in DOMAIN ledger : ledger[i] = r
NoneTouched(r) ==
  /\ artifact["default"].run # r
  /\ metrics["default"].run # r
  /\ \A i \in DOMAIN ledger : ledger[i] # r
C8_AllOrNothing ==
  \A t \in Threads :
    (pc[t] = "notify_outcome" /\ run[t] # 0) =>
      (AllCommitted(run[t]) \/ NoneTouched(run[t]))

\* C9 (as claimed): when save_model failed, run() did not return normally
\* and trigger_retraining reports the retrain as failed.
C9_SaveFailureSurfaces ==
  \A t \in Threads :
    (pc[t] = "notify_outcome" /\ save_ok[t] = PyFalse) =>
      (run_result[t] = "raised" /\ rs[t] = PyFalse)

\* C10 (as claimed): what a reader loads from the artifact is never a
\* partially written file.
C10_NoPartialRead == \A t \in Threads : seen[t].st # "partial"

\* C11 (as claimed): at every moment the metrics snapshot and the artifact at
\* a location were written by the same run, and neither exists without the
\* other.
C11_ArtifactMetricsSameRun ==
  \A p \in Paths :
    /\ artifact[p].run = metrics[p].run
    /\ (artifact[p].st = "absent") <=> (metrics[p].st = "absent")

\* C12 (as claimed): when a retrain triggered by a scheduler built with its
\* own paths has succeeded, the artifact and the metrics snapshot at the
\* scheduler's paths are that run's, complete, so that the next drift check
\* (which reads the scheduler's paths) has them as its baseline.
C12_RetrainReplacesSchedulerFiles ==
  \A t \in Threads :
    (sched_paths = "custom" /\ pc[t] = "notify_outcome" /\ RunSucceeded(t)) =>
      /\ artifact[sched_paths] = Complete(run[t])
      /\ metrics[sched_paths] = Complete(run[t])

\* C13 (as claimed): monitor_and_alert never raises, and whenever something
\* fails during the call (the model file or the dataset is missing or cannot
\* be loaded, a sub-check fails, the alert callback raises) the result has
\* status 'error' and a message.
MonitorFailure(in) ==
  \/ ~in.model_exists \/ ~in.data_exists
  \/ ~in.model_loads \/ ~in.data_loads
  \/ in.dist \in {"no_reference", "raises"}
  \/ in.pred \in {"no_target", "raises"}
  \/ /\ in.callback = "raises"
     /\ in.dist = "drift" \/ in.pred = "drift"
C13_MonitorNeverRaises ==
  (fn = "monitor_and_alert" /\ returned) =>
    /\ ~ret.raised
    /\ MonitorFailure(arg) =>
         /\ DictGet(ret.value, "status", PyNone) = PyStr("error")
         /\ "message" \in DOMAIN ret.value

\* C14: a check cycle whose monitor_and_alert returned an error result (as
\* it does when the dataset or the artifact is absent) ends like a no-drift
\* cycle: it has started no retrain and sent no notification, its result
\* says retraining_triggered "False", its last step sets last_check_time to
\* the cycle's time and next_check_time one check interval later and takes
\* the worker to its normal wait (not the 60 s backoff), and the worker
\* then reaches another check unless it is stopped (or the model's budget of
\* cycles is used up).
AllSubjects == {DriftSubject} \cup OutcomeSubjects
ErrorCycleEnds(t) ==
  pc[t] = "log_result" /\ DictGet(result[t], "status", PyNone) = PyStr("error")
C14_MissingInputLikeNoDrift ==
  /\ [](\A t \in Threads :
          ErrorCycleEnds(t) =>
            /\ run[t] = 0 /\ run_result[t] = "none"
            /\ NotifIndices(AllSubjects, cyc[t]) = {}
            /\ DictGet(result[t], "retraining_triggered", PyNone) = PyStr("False"))
  /\ [][\A t \in Threads :
          (ErrorCycleEnds(t) /\ pc'[t] # "log_result") =>
            /\ last_check_time' = Now(cyc[t])
            /\ next_check_time' = TimePlusHours(Now(cyc[t]), CheckIntervalHours)
            /\ t \in Workers => (pc'[t] = "wait" /\ k'[t] = SlicesPerInterval)]_vars
  /\ \A w \in Workers :
       [](ErrorCycleEnds(w) =>
            <>(pc[w] = "monitor" \/ stop_event \/ cycles = MaxCycles))

\* C14 witness: the artifact is absent, and a worker is in its normal wait
\* after the cycle that met this, whose line in the drift log has status
\* 'error' and whose time is last_check_time
C14_Witness ==
  /\ artifact[sched_paths] = Absent
  /\ \E w \in Workers :
       /\ pc[w] = "wait" /\ k[w] = SlicesPerInterval
       /\ \E i \in DOMAIN drift_log :
            /\ drift_log[i].line["status"] = PyStr("error")
            /\ "retraining_triggered" \in DOMAIN drift_log[i].line
            /\ last_check_time = Now(drift_log[i].cycle)
            /\ next_check_time = TimePlusHours(last_check_time, CheckIntervalHours)
       /\ notifications = <<>>
       /\ runs = 0

\* C15 (as claimed): the training-history ledger, the drift-check log and
\* the notification log only grow at their end (no step changes or removes
\* a line that is there), and every run that has succeeded (run() returned
\* and save_model made its three writes) has exactly one row in the ledger.
IsPrefix(s1, s2) == Len(s1) <= Len(s2) /\ SubSeq(s2, 1, Len(s1)) = s1
LedgerRows(r) == {i \in DOMAIN ledger : ledger[i] = r}
C15_AppendOnly ==
  /\ [][/\ IsPrefix(ledger, ledger')
        /\ IsPrefix(drift_log, drift_log')
        /\ IsPrefix(notifications, notifications')]_vars
  /\ [](\A t \in Threads :
          (pc[t] = "notify_outcome" /\ RunSucceeded(t)) =>
            Cardinality(LedgerRows(run[t])) = 1)

\* C16 (as claimed): in every line written to logs/drift_checks.json each
\* boolean flag (the overall drift_detected, the sub-checks' and the
\* per-feature drift_detected, retraining_triggered, retraining_success) is
\* a native boolean, never a string.
FlagKeys ==
  {"drift_detected", "distribution_drift.drift_detected",
   "distribution_drift.features.drift_detected",
   "prediction_drift.drift_detected",
   "retraining_triggered", "retraining_success"}
C16_NativeBooleans ==
  \A i \in DOMAIN drift_log :
    \A key \in FlagKeys \cap DOMAIN drift_log[i].line :
      drift_log[i].line[key].t = "bool"

\* C17 (as claimed): a SIGINT or SIGTERM is handled through stop(): from
\* the handler's stop() on running is false and the stop flag is set, no
\* worker enters a new check cycle, and the process does not exit while a
\* worker is inside a check or a retrain.
InSignalHandler == pc[Main] \in {"signal_joining", "signal_joined", "exited"}
C17_SignalGracefulStop ==
  /\ [](InSignalHandler => (~running /\ stop_event))
  /\ [][InSignalHandler =>
          \A w \in Workers : (pc'[w] = "monitor" => pc[w] = "monitor")]_vars
  /\ [](pc[Main] = "exited" => \A w \in Workers : pc[w] \notin CheckPcs)

\* C18 (as claimed): for a dataset of n rows load_data returns as test set
\* the last floor(0.2 * n) rows in file order and as training set the
\* leading rows that remain, also when floor(0.2 * n) = 0.
C18_ChronologicalSplit ==
  (fn = "load_data" /\ returned) =>
    LET n == Len(arg.rows)
        m == n \div 5
    IN  /\ ret.value.test = [i \in 1..m |-> arg.rows[n - m + i]]
        /\ ret.value.train = [i \in 1..(n - m) |-> arg.rows[i]]

\* C19: with a baseline mean, check_value_drift returns drift exactly when
\* the distance of the new value from the baseline is greater than the
\* threshold, and that distance as the magnitude; a distance equal to the
\* threshold is no drift.
Distance(x, y) == IF x >= y THEN x - y ELSE y - x
C19_ValueDriftStrict ==
  (fn = "check_value_drift" /\ returned /\ arg.has_baseline) =>
    LET d == Distance(arg.new_value, arg.baseline_mean)
    IN  /\ ret.value.drift = d
        /\ (ret.value.drift_detected = PyTrue) <=> (d > arg.threshold)
        /\ (ret.value.drift_detected = PyFalse) <=> (d <= arg.threshold)
        /\ d = arg.threshold => ret.value.drift_detected = PyFalse

\* C19 witness: baseline 10, threshold 5 and input 15 have returned (False, 5)
C19_Witness ==
  /\ fn = "check_value_drift" /\ returned
  /\ arg = [has_baseline |-> TRUE, baseline_mean |-> 10, threshold |-> 5,
            new_value |-> 15]
  /\ ret.value = [drift_detected |-> PyFalse, drift |-> 5]

\* C20 (as claimed): without a baseline mean, what check_value_drift returns
\* differs from every value it returns for a no-drift input with a baseline.
C20_UndeterminedDistinct ==
  (fn = "check_value_drift" /\ returned /\ ~arg.has_baseline) =>
    \A in \in ValueDriftInputs :
      (in.has_baseline /\ ~Truthy(CheckValueDrift(in).drift_detected)) =>
        CheckValueDrift(in) # ret.value


\* C21: on data with the target column, check_prediction_drift returns,
\* without reference metrics, drift_detected False with the current MSE and
\* MAE; with (positive) reference MSE and MAE it flags drift exactly when
\* the relative change (new - ref) / ref of the MSE or of the MAE is greater
\* than 0.2, so a change of exactly 0.2, no change and an improvement are
\* not flagged.
C21_PredictionDriftRelative ==
  (fn = "check_prediction_drift" /\ returned /\ arg.has_target) =>
    /\ ~arg.has_reference =>
         /\ ret.value.drift_detected = PyFalse
         /\ ret.value.current_mse = arg.mse
         /\ ret.value.current_mae = arg.mae
    /\ (arg.has_reference /\ arg.has_ref_mae /\ arg.ref_mse > 0 /\ arg.ref_mae > 0) =>
         /\ Truthy(ret.value.drift_detected) <=>
              \/ 5 * (arg.mse - arg.ref_mse) > arg.ref_mse
              \/ 5 * (arg.mae - arg.ref_mae) > arg.ref_mae
         /\ (arg.mse <= arg.ref_mse /\ arg.mae <= arg.ref_mae) =>
              ~Truthy(ret.value.drift_detected)

\* C21 witness: reference MSE 1.0 and new MSE 1.3, the MAE unchanged, have
\* been flagged
C21_Witness ==
  /\ fn = "check_prediction_drift" /\ returned
  /\ arg.has_target /\ arg.has_reference /\ arg.has_ref_mae
  /\ arg.ref_mse = 10 /\ arg.mse = 13
  /\ arg.ref_mae = 10 /\ arg.mae = 10
  /\ Truthy(ret.value.drift_detected)


\* C22 (as claimed): each entry point exits with status 0 when its check
\* returned a result whose status is not 'error' (drift detected and
\* handled included), and with a non-zero status when the check returned an
\* error result.
C22_ExitStatusReflectsCheck ==
  (fn = "main" /\ returned /\ ~arg.check.raised) =>
    ((ret.value.exit_status = 0) <=> (arg.check.value["status"] # PyStr("error")))


\* C23 (as claimed): trigger_retraining returns the string 'True' or the
\* string 'False', and for a drift result whose drift_detected is the string
\* 'False' it starts no run of the pipeline and returns 'False'.
C23_TriggerReturnsStrings ==
  (fn = "trigger_retraining" /\ returned) =>
    /\ ret.value.returns \in {PyStr("True"), PyStr("False")}
    /\ DictGet(arg.drift_result, "drift_detected", PyNone) = PyStr("False") =>
         /\ ~ret.value.run_started
         /\ ret.value.returns = PyStr("False")


\* C24 (as claimed): every result that monitor_and_alert returns has the key
\* drift_detected, and the value under it is a string.
C24_DriftDetectedIsString ==
  (fn = "monitor_and_alert" /\ returned /\ ~ret.raised) =>
    /\ "drift_detected" \in DOMAIN ret.value
    /\ ret.value["drift_detected"].t = "str"


\* C25 (as claimed): when the demo has trained initially, found drift on the
\* drifted dataset and called run_retraining(drift_data_path), and no step
\* of the pipeline or of the evaluation fails, the run() call made with the
\* dataset path returns the metrics of a retrain on that dataset and the
\* demo exits with status 0.
C25_RunWithDatasetPath ==
  (/\ fn = "retraining_demo" /\ returned
   /\ ret.value.retrain_reached
   /\ ~arg.retrain_raises /\ ~arg.evaluate_raises) =>
    /\ ~ret.value.retrain.raised
    /\ ret.value.retrain.value = [trained_on |-> PyStr("csv_path")]
    /\ ret.value.exit_status = 0


\* C26 (as claimed): every sleep a waiting worker can be inside, the 60 s
\* backoff after an iteration that raised included, lasts at most 10
\* seconds, so that a stop flag set meanwhile is tested within 10 seconds;
\* and a worker whose sleep ends while the flag is set goes to the flag
\* test and out of the loop, not into a check.
C26_StopObservedWithinTenSeconds ==
  /\ [](\A w \in Workers : pc[w] \in SleepPcs => SleepSeconds(pc[w]) <= 10)
  /\ [][\A w \in Workers :
          (/\ stop_event /\ stop_event'
           /\ pc[w] \in SleepPcs \cup {"wait"}
           /\ pc'[w] # pc[w]) => pc'[w] \in {"wait", "loop_head", "done"}]_vars


\* C27 (as claimed): in the 'drift' mode with --trigger-retraining, a check
\* whose result has drift detected is followed by a call of
\* trigger_retraining, and 'successful' is logged exactly when that call
\* returned true.
C27_DriftModeTriggers ==
  (/\ fn = "run_drift_detection" /\ returned
   /\ arg.trigger_retraining
   /\ Truthy(DictGet(ret.value.result, "drift_detected", PyFalse))) =>
    /\ ret.value.triggered
    /\ (ret.value.logged = "successful") <=> Truthy(ret.value.retraining_result)


\* C28 (as claimed): once stop() has returned and until start() is called
\* again (running is false), no worker is inside a drift check or a
\* retraining run, and no step of a worker changes the artifact, the
\* metrics, the ledger or the logs.
StopReturned ==
  ~running /\ nThreads > 0 /\ pc[Main] \notin {"joining", "signal_joining"}
C28_QuiescentAfterStop ==
  /\ [](StopReturned => \A w \in Workers : pc[w] \notin CheckPcs)
  /\ [][(StopReturned /\ \E w \in Workers : pc'[w] # pc[w]) =>
          UNCHANGED <<fileVars, logVars>>]_vars


\* C29 (as claimed): check_for_drift never raises: a call that ends, ends at
\* the statement after the call (for the worker the computation of its wait,
\* not the loop's exception handler), and a call that ends in its own
\* handler has written the error line and returns the error result.
CallEnds(t) == pc[t] \in CheckPcs /\ pc'[t] \notin CheckPcs
C29_CheckNeverRaises ==
  [][\A t \in Threads :
       CallEnds(t) =>
         /\ pc'[t] = (IF t = Main THEN "idle" ELSE "wait")
         /\ pc[t] = "err_log" =>
              drift_log' = Append(drift_log, LogLine(t, ErrorResult))]_vars

\* C30 (as claimed): a check_for_drift call that returns has appended
\* exactly one line to the drift-check log (after no drift, after drift,
\* after an error result, and from its handler), which at the return is the
\* last line of the log.
LogLinesOf(log, c) == {i \in DOMAIN log : log[i].cycle = c}
CallReturns(t) ==
  CallEnds(t) /\ ~(pc[t] = "err_log" /\ drift_log' = drift_log)
C30_OneLogLinePerCheck ==
  [][\A t \in Threads :
       CallReturns(t) =>
         /\ Cardinality(LogLinesOf(drift_log', cyc[t])) = 1
         /\ drift_log' # <<>>
         /\ drift_log'[Len(drift_log')].cycle = cyc[t]]_vars

====
